---- MODULE Spec2Model ----
(***************************************************************************)
(* Model of persia-embedding-holder/src/emb_entry.rs: the embedding entry  *)
(* value types (HashMapEmbeddingEntry, ArrayEmbeddingEntry), their         *)
(* constructors, slice accessors, bulk copy and binary record format.      *)
(*                                                                         *)
(* f32 values are modelled by the non-negative integers that are exactly   *)
(* representable as floats; a buffer is a sequence of them.  The random    *)
(* generator and the distributions of the rand crates are modelled as      *)
(* deterministic functions of the generator state, as the crates define    *)
(* them: a seeded generator yields one fixed stream.                       *)
(***************************************************************************)
EXTENDS Integers, Sequences, FiniteSets, TLC

\* ---------------------------------------------------------------- bounds
MaxDim == 2
MaxExtra == 1
RngMod == 8
ArrayL == 2

Val == {0, 1}
Signs == {7, 123}
Seeds == {1, 42}
Vecs(n) == UNION {[1..k -> Val] : k \in 0..n}

\* --------------------------------------------- InitializationMethod (l.10)
SupportedKinds == {"BoundedUniform", "BoundedGamma", "BoundedPoisson", "BoundedNormal"}
Method(k, a, b) == [kind |-> k, p1 |-> a, p2 |-> b]
NoMethod == Method("none", 0, 0)
\* BoundedUniform(lower, upper), BoundedGamma(shape, scale),
\* BoundedPoisson(lambda), BoundedNormal(mean, standard_deviation), one
\* method with parameters its distribution rejects, and one other variant.
Methods ==
    { Method("BoundedUniform", 0, 2), Method("BoundedUniform", 1, 1),
      Method("BoundedGamma", 2, 1), Method("BoundedPoisson", 1, 0),
      Method("BoundedNormal", 1, 1), Method("Default", 0, 0) }

\* ------------------------------------------------------------- the state
VARIABLES
    entry,    \* the entry value under operation (NoEntry before construction)
    born,     \* history: the dim, extra and sign its constructor was given
    lastOp,   \* history: the last call, its arguments and what it returned
    aborted,  \* the thread panicked
    memo,     \* history: the arguments and result of the first new() call
    wire,     \* the bytes written by the last write_to
    sent      \* history: the entry those bytes were written from

vars == <<entry, born, lastOp, aborted, memo, wire, sent>>

\* struct HashMapEmbeddingEntry { inner, embedding_dim, sign } and
\* struct ArrayEmbeddingEntry  { inner, embedding_dim, sign }
Entry(r, i, d, s) == [repr |-> r, inner |-> i, embedding_dim |-> d, sign |-> s]
NoEntry == Entry("none", <<>>, 0, 0)
HashMapEntry(i, d, s) == Entry("HashMapEmbeddingEntry", i, d, s)
ArrayEntry(i, d, s) == Entry("ArrayEmbeddingEntry", i, d, s)
IsHashMap(e) == e.repr = "HashMapEmbeddingEntry"
IsArray(e) == e.repr = "ArrayEmbeddingEntry"

NoBorn == [dim |-> 0, extra |-> 0, sign |-> 0]
\* A call record: the operation, what it returned, the arguments it was given
\* (other: the argument of copy_from_other) and the entry it was called on.
Call(o, r, m, d, x, sd, sg, rs, oth, bef) ==
    [op |-> o, ret |-> r, method |-> m, dim |-> d, extra |-> x, seed |-> sd,
     sign |-> sg, rngSeed |-> rs, other |-> oth, before |-> bef]
SimpleCall(o, r, bef) == Call(o, r, NoMethod, 0, 0, 0, 0, 0, NoEntry, bef)
CtorCall(o, d, x, sg) == Call(o, "ok", NoMethod, d, x, 0, sg, 0, NoEntry, NoEntry)
NoMemo == [set |-> FALSE, again |-> FALSE, method |-> NoMethod, dim |-> 0, extra |-> 0, seed |-> 0,
           sign |-> 0, rngSeed |-> 0, inner |-> <<>>]
NoWire == [fmt |-> "none", bytes |-> <<>>]

\* ------------------------------------------------------------- sampling
\* Variant: a generator shared between calls, already advanced by the first.
SeedFromShared(seed) == (seed + (IF memo.set THEN 1 ELSE 0)) % RngMod
\* SmallRng::seed_from_u64(seed): the generator state is a function of the
\* seed alone.
SeedFromU64(seed) == seed % RngMod
\* One step of the generator.
RngNext(s) == (5 * s + 3) % RngMod
\* The value new() hands to seed_from_u64.
SamplerSeed(seed, sign) == seed

\* Uniform::new(lower, upper) rejects lower >= upper; Gamma::new, Poisson::new
\* and Normal::new return Err on parameters out of range, and new() unwraps.
ParamsOk(m) ==
    CASE m.kind = "BoundedUniform" -> m.p1 < m.p2
      [] m.kind = "BoundedGamma" -> m.p1 > 0 /\ m.p2 > 0
      [] m.kind = "BoundedPoisson" -> m.p1 > 0
      [] m.kind = "BoundedNormal" -> m.p2 >= 0
      [] OTHER -> FALSE

\* One draw of the distribution from generator output r in 0..RngMod-1
\* (u = r / RngMod in [0, 1)).
UniformSample(lower, upper, r) == lower + (r * (upper - lower)) \div RngMod
DistSample(m, r) ==
    CASE m.kind = "BoundedUniform" -> UniformSample(m.p1, m.p2, r)
      [] m.kind = "BoundedGamma" -> m.p2 * (1 + (r % (m.p1 + 1)))
      [] m.kind = "BoundedPoisson" -> (r * (2 * m.p1 + 1)) \div RngMod
      [] m.kind = "BoundedNormal" -> m.p1 - m.p2 + (r % (2 * m.p2 + 1))

\* Array1::random_using((dim,), dist, &mut rng): dim draws, advancing rng.
RECURSIVE RandomUsing(_, _, _)
RandomUsing(n, m, s) ==
    IF n = 0 THEN <<>>
    ELSE <<DistSample(m, s)>> \o RandomUsing(n - 1, m, RngNext(s))

\* vec![value; n]
Filled(n, v) == [i \in 1..n |-> v]
\* Variant: the appended optimizer state is not zero.
ResizeOnes(inner, n) == inner \o Filled(n, 1)
\* Vec::resize(len + n, 0.0)
Resize(inner, n) == inner \o Filled(n, 0)

\* Variant: any other method falls back to zero weights.
MatchFallback(m, dim, seed, sign) ==
    IF m.kind \in SupportedKinds
    THEN [ok |-> ParamsOk(m),
          emb |-> IF ParamsOk(m)
                  THEN RandomUsing(dim, m, SeedFromU64(SamplerSeed(seed, sign)))
                  ELSE <<>>]
    ELSE [ok |-> TRUE, emb |-> Filled(dim, 0)]
\* The match of new(): the four supported arms sample, any other panics.
MatchInit(m, dim, seed, sign) ==
    IF m.kind \in SupportedKinds /\ ParamsOk(m)
    THEN [ok |-> TRUE,
          emb |-> RandomUsing(dim, m, SeedFromU64(SamplerSeed(seed, sign)))]
    ELSE [ok |-> FALSE, emb |-> <<>>]

\* ---------------------------------------------------------- constructors
\* HashMapEmbeddingEntry::new, as a value (defined when MatchInit is ok)
NewEntry(m, dim, require_space, seed, sign) ==
    LET emb == MatchInit(m, dim, seed, sign).emb
        inner == IF require_space > 0 THEN Resize(emb, require_space) ELSE emb
    IN  HashMapEntry(inner, dim, sign)

New(m, dim, require_space, seed, sign) ==
    /\ ~aborted
    /\ entry = NoEntry
    /\ IF MatchInit(m, dim, seed, sign).ok
       THEN /\ entry' = NewEntry(m, dim, require_space, seed, sign)
            /\ born' = [dim |-> dim, extra |-> require_space, sign |-> sign]
            /\ lastOp' = Call("new", "ok", m, dim, require_space, seed, sign,
                              SamplerSeed(seed, sign), NoEntry, NoEntry)
            /\ UNCHANGED aborted
       ELSE /\ aborted' = TRUE
            /\ lastOp' = Call("new", "panic", m, dim, require_space, seed, sign,
                              SamplerSeed(seed, sign), NoEntry, NoEntry)
            /\ UNCHANGED <<entry, born>>
    /\ UNCHANGED <<wire, sent>>

NewEmptyEntry(dim, require_space, sign) ==
    HashMapEntry(Filled(dim + require_space, 0), dim, sign)
NewEmpty(dim, require_space, sign) ==
    /\ ~aborted
    /\ entry = NoEntry
    /\ entry' = NewEmptyEntry(dim, require_space, sign)
    /\ born' = [dim |-> dim, extra |-> require_space, sign |-> sign]
    /\ lastOp' = CtorCall("new_empty", dim, require_space, sign)
    /\ UNCHANGED <<aborted, wire, sent>>

FromEmbEntry(emb, sign) == HashMapEntry(emb, Len(emb), sign)
FromEmb(emb, sign) ==
    /\ ~aborted
    /\ entry = NoEntry
    /\ entry' = FromEmbEntry(emb, sign)
    /\ born' = [dim |-> Len(emb), extra |-> 0, sign |-> sign]
    /\ lastOp' = CtorCall("from_emb", Len(emb), 0, sign)
    /\ UNCHANGED <<aborted, wire, sent>>

FromEmbAndOptEntry(emb, opt, sign) == HashMapEntry(emb \o opt, Len(emb), sign)
FromEmbAndOpt(emb, opt, sign) ==
    /\ ~aborted
    /\ entry = NoEntry
    /\ entry' = FromEmbAndOptEntry(emb, opt, sign)
    /\ born' = [dim |-> Len(emb), extra |-> Len(opt), sign |-> sign]
    /\ lastOp' = CtorCall("from_emb_and_opt", Len(emb), Len(opt), sign)
    /\ UNCHANGED <<aborted, wire, sent>>

\* The value goes out of scope (the owner drops or evicts it).
Drop ==
    /\ ~aborted
    /\ entry # NoEntry
    /\ entry' = NoEntry
    /\ born' = NoBorn
    /\ lastOp' = SimpleCall("drop", "ok", NoEntry)
    /\ UNCHANGED <<aborted, wire, sent>>

\* ------------------------------------------------------------ accessors
\* A slice of the buffer: where it starts and how many elements it spans.
Slice(o, n) == [off |-> o, len |-> n]
SliceRead(e, sl) == SubSeq(e.inner, sl.off + 1, sl.off + sl.len)
\* *slice[k] = v through an exclusive slice, k counted from 0
SliceWrite(e, sl, k, v) == [e EXCEPT !.inner[sl.off + k + 1] = v]

Dim(e) == e.embedding_dim
EmbeddingDim(e) == e.embedding_dim
InnerSize(e) == Len(e.inner)
Sign(e) == e.sign
HashmapKey(e) == e.sign

\* &self.inner[..self.embedding_dim()]
EmbSlice(e) == Slice(0, EmbeddingDim(e))
\* &self.inner[self.embedding_dim()..]
OptSlice(e) == Slice(EmbeddingDim(e), Len(e.inner) - EmbeddingDim(e))
\* self.inner.split_at_mut(dim)
SplitAtMut(e, mid) == <<Slice(0, mid), Slice(mid, Len(e.inner) - mid)>>
\* Variant: the split point counted from the end of the buffer.
EmbAndOptSwapped(e) == SplitAtMut(e, Len(e.inner) - EmbeddingDim(e))
EmbAndOptMut(e) == SplitAtMut(e, EmbeddingDim(e))
\* self.inner.as_mut_slice()
AsMutEmbEntrySlice(e) == Slice(0, Len(e.inner))
AsEmbEntrySlice(e) == e.inner

Emb(e) == SliceRead(e, EmbSlice(e))
Opt(e) == SliceRead(e, OptSlice(e))

\* A caller's write of one element through the slice an accessor returned.
WriteThrough(op, sl, k, v) ==
    /\ ~aborted
    /\ IsHashMap(entry)
    /\ k \in 0..(sl.len - 1)
    /\ entry' = SliceWrite(entry, sl, k, v)
    /\ lastOp' = SimpleCall(op, "ok", entry)
    /\ UNCHANGED <<born, aborted, wire, sent>>

EmbMutWrite(k, v) == WriteThrough("emb_mut", EmbSlice(entry), k, v)
OptMutWrite(k, v) == WriteThrough("opt_mut", OptSlice(entry), k, v)
EmbAndOptMutWriteEmb(k, v) == WriteThrough("emb_and_opt_mut.emb", EmbAndOptMut(entry)[1], k, v)
EmbAndOptMutWriteOpt(k, v) == WriteThrough("emb_and_opt_mut.opt", EmbAndOptMut(entry)[2], k, v)
AsMutSliceWrite(k, v) == WriteThrough("as_mut_emb_entry_slice", AsMutEmbEntrySlice(entry), k, v)

\* ------------------------------------------------------ copy_from_other
Min(a, b) == IF a < b THEN a ELSE b
\* for (dst, src) in self.inner.iter_mut().zip(other.inner.iter()) { *dst = *src }
\* Variant: the elements of dst past the end of src are cleared.
ZipCopyZeroTail(dst, src) ==
    [i \in 1..Len(dst) |-> IF i <= Min(Len(dst), Len(src)) THEN src[i] ELSE 0]
ZipCopy(dst, src) ==
    [i \in 1..Len(dst) |-> IF i <= Min(Len(dst), Len(src)) THEN src[i] ELSE dst[i]]

\* Variant: dst's buffer is replaced by a clone of other's.
CopyClone(e, other) ==
    IF EmbeddingDim(e) # EmbeddingDim(other)
    THEN [ret |-> "false", self |-> e]
    ELSE [ret |-> "true", self |-> [e EXCEPT !.inner = other.inner]]
\* Variant: the whole of other, sign included, is assigned to dst.
CopyWhole(e, other) ==
    IF EmbeddingDim(e) # EmbeddingDim(other)
    THEN [ret |-> "false", self |-> e]
    ELSE [ret |-> "true", self |-> other]
\* copy_from_other: what it returns and what self is afterwards.
CopyResult(e, other) ==
    IF EmbeddingDim(e) # EmbeddingDim(other)
    THEN [ret |-> "false", self |-> e]
    ELSE [ret |-> "true", self |-> [e EXCEPT !.inner = ZipCopy(e.inner, other.inner)]]

CopyFromOther(other) ==
    /\ ~aborted
    /\ IsHashMap(entry)
    /\ entry' = CopyResult(entry, other).self
    /\ lastOp' = Call("copy_from_other", CopyResult(entry, other).ret,
                      NoMethod, 0, 0, 0, 0, 0, other, entry)
    /\ UNCHANGED <<born, aborted, wire, sent>>

\* The entries a caller passes to copy_from_other: built by from_emb_and_opt
\* from a weight vector and an optimizer vector, each filled with one value.
Others ==
    {FromEmbAndOptEntry(Filled(d, a), Filled(x, b), sign) :
        d \in 0..MaxDim, x \in 0..MaxExtra, a \in Val, b \in Val, sign \in Signs}

\* ------------------------------------------------ ArrayEmbeddingEntry
\* from_dynamic: assert_eq!(dynamic_entry.inner.len(), L), then the fields
\* are moved over.
FromDynamic(inner, embedding_dim, sign) ==
    /\ ~aborted
    /\ entry = NoEntry
    /\ IF Len(inner) = ArrayL
       THEN /\ entry' = ArrayEntry(inner, embedding_dim, sign)
            /\ born' = [dim |-> embedding_dim, extra |-> Len(inner) - embedding_dim,
                        sign |-> sign]
            /\ lastOp' = CtorCall("from_dynamic", embedding_dim, 0, sign)
            /\ UNCHANGED aborted
       ELSE /\ aborted' = TRUE
            /\ lastOp' = Call("from_dynamic", "panic", NoMethod, embedding_dim, 0, 0,
                              sign, 0, NoEntry, NoEntry)
            /\ UNCHANGED <<entry, born>>
    /\ UNCHANGED <<wire, sent>>

\* ------------------------------------------------------- record format
\* Little-endian bytes of an unsigned integer of w bytes, and back.
RECURSIVE LE(_, _)
LE(n, w) == IF w = 0 THEN <<>> ELSE <<n % 256>> \o LE(n \div 256, w - 1)
RECURSIVE FromLE(_)
FromLE(bytes) == IF bytes = <<>> THEN 0 ELSE Head(bytes) + 256 * FromLE(Tail(bytes))

\* The IEEE-754 single of a non-negative integer value v < 2^24: exponent
\* field 127 + floor(log2 v), the fraction in the top bits of the mantissa.
RECURSIVE Log2(_)
Log2(v) == IF v < 2 THEN 0 ELSE 1 + Log2(v \div 2)
F32Exponent(v) == IF v = 0 THEN 0 ELSE 127 + Log2(v)
F32Mantissa(v) == IF v = 0 THEN 0 ELSE (v - 2^Log2(v)) * 2^(23 - Log2(v))
\* f32::write_to: the four bytes of the bit pattern, little-endian
F32Bytes(v) ==
    << F32Mantissa(v) % 256,
       (F32Mantissa(v) \div 256) % 256,
       (F32Mantissa(v) \div 65536) + 128 * (F32Exponent(v) % 2),
       F32Exponent(v) \div 2 >>
\* f32::read_from
F32FromBytes(b) ==
    LET expo == 2 * (b[4] % 128) + b[3] \div 128
        mant == 65536 * (b[3] % 128) + 256 * b[2] + b[1]
    IN  IF expo = 0 THEN 0
        ELSE 2^(expo - 127) + mant \div 2^(23 - (expo - 127))

RECURSIVE Flatten(_)
Flatten(ss) == IF ss = <<>> THEN <<>> ELSE Head(ss) \o Flatten(Tail(ss))
\* A slice or Vec of f32: the length as a u32, then the elements.
WriteSlice(xs) == LE(Len(xs), 4) \o Flatten([i \in 1..Len(xs) |-> F32Bytes(xs[i])])
\* Vec<f32>::read_from at offset off of the bytes
ReadVecLen(bytes, off) == FromLE(SubSeq(bytes, off + 1, off + 4))
ReadVec(bytes, off) ==
    [i \in 1..ReadVecLen(bytes, off) |->
        F32FromBytes(SubSeq(bytes, off + 4 * i + 1, off + 4 * i + 4))]
ReadU64(bytes, off) == FromLE(SubSeq(bytes, off + 1, off + 8))

\* Variant: sign written before embedding_dim.
ArrayWriteSwapped(e) == LE(e.sign, 8) \o LE(e.embedding_dim, 8) \o WriteSlice(e.inner)
\* ArrayEmbeddingEntry::write_to: embedding_dim, sign, inner.as_slice()
ArrayWriteTo(e) == LE(e.embedding_dim, 8) \o LE(e.sign, 8) \o WriteSlice(e.inner)
\* ArrayEmbeddingEntry::read_from: embedding_dim, sign, Vec<T>, SmallVec::from_vec
ArrayReadFrom(bytes) ==
    ArrayEntry(ReadVec(bytes, 16), ReadU64(bytes, 0), ReadU64(bytes, 8))

\* #[derive(Readable, Writable)] on HashMapEmbeddingEntry: the fields in the
\* order they are declared: inner, embedding_dim, sign
HashMapWriteTo(e) == WriteSlice(e.inner) \o LE(e.embedding_dim, 8) \o LE(e.sign, 8)
HashMapReadFrom(bytes) ==
    LET n == ReadVecLen(bytes, 0)
    IN  HashMapEntry(ReadVec(bytes, 0), ReadU64(bytes, 4 + 4 * n), ReadU64(bytes, 12 + 4 * n))

Encode(e) == IF IsArray(e) THEN ArrayWriteTo(e) ELSE HashMapWriteTo(e)
Decode(fmt, bytes) ==
    IF fmt = "ArrayEmbeddingEntry" THEN ArrayReadFrom(bytes) ELSE HashMapReadFrom(bytes)

\* entry.write_to(writer): the writer receives the record's bytes.
WriteTo ==
    /\ ~aborted
    /\ entry # NoEntry
    /\ wire' = [fmt |-> entry.repr, bytes |-> Encode(entry)]
    /\ sent' = entry
    /\ lastOp' = SimpleCall("write_to", "ok", entry)
    /\ UNCHANGED <<entry, born, aborted>>

\* T::read_from(reader) on the bytes written last, by the type that wrote them.
ReadFrom ==
    /\ ~aborted
    /\ entry = NoEntry
    /\ wire # NoWire
    /\ entry' = Decode(wire.fmt, wire.bytes)
    /\ born' = [dim |-> entry'.embedding_dim,
                extra |-> Len(entry'.inner) - entry'.embedding_dim,
                sign |-> entry'.sign]
    /\ lastOp' = SimpleCall("read_from", "ok", NoEntry)
    /\ UNCHANGED <<aborted, wire, sent>>

\* ------------------------------------------------------- history: memo
\* Remembers the first successful new() call and the buffer it built.
SameArgs(m, c) ==
    /\ m.method = c.method /\ m.dim = c.dim /\ m.extra = c.extra
    /\ m.seed = c.seed /\ m.sign = c.sign
RecordFirst ==
    memo' = IF lastOp'.op = "new" /\ lastOp'.ret = "ok"
            THEN IF ~memo.set
                 THEN [set |-> TRUE, again |-> FALSE, method |-> lastOp'.method,
                       dim |-> lastOp'.dim, extra |-> lastOp'.extra,
                       seed |-> lastOp'.seed, sign |-> lastOp'.sign,
                       rngSeed |-> lastOp'.rngSeed, inner |-> entry'.inner]
                 ELSE [memo EXCEPT !.again = @ \/ SameArgs(memo, lastOp')]
            ELSE memo

Init ==
    /\ entry = NoEntry
    /\ born = NoBorn
    /\ lastOp = SimpleCall("none", "none", NoEntry)
    /\ aborted = FALSE
    /\ memo = NoMemo
    /\ wire = NoWire
    /\ sent = NoEntry

Next ==
    \/ \E m \in Methods, dim \in 0..MaxDim, x \in 0..MaxExtra, seed \in Seeds, sign \in Signs :
          New(m, dim, x, seed, sign) /\ UNCHANGED memo
    \/ \E dim \in 0..MaxDim, x \in 0..MaxExtra, sign \in Signs :
          NewEmpty(dim, x, sign) /\ UNCHANGED memo
    \/ \E emb \in Vecs(MaxDim), sign \in Signs : FromEmb(emb, sign) /\ UNCHANGED memo
    \/ \E emb \in Vecs(MaxDim), opt \in Vecs(MaxExtra), sign \in Signs :
          FromEmbAndOpt(emb, opt, sign) /\ UNCHANGED memo
    \/ \E other \in Others : CopyFromOther(other) /\ UNCHANGED memo
    \/ \E k \in 0..(MaxDim + MaxExtra - 1), v \in Val :
          \/ EmbMutWrite(k, v) /\ UNCHANGED memo
          \/ OptMutWrite(k, v) /\ UNCHANGED memo
          \/ EmbAndOptMutWriteEmb(k, v) /\ UNCHANGED memo
          \/ EmbAndOptMutWriteOpt(k, v) /\ UNCHANGED memo
          \/ AsMutSliceWrite(k, v) /\ UNCHANGED memo
    \/ Drop /\ UNCHANGED memo

Spec == Init /\ [][Next]_vars

\* Creation, mutation, eviction and re-creation of entries by the initializer.
NextInit ==
    \/ \E m \in Methods, dim \in 0..MaxDim, x \in 0..MaxExtra, seed \in Seeds, sign \in Signs :
          New(m, dim, x, seed, sign) /\ RecordFirst
    \/ \E dim \in 0..MaxDim, x \in 0..MaxExtra, sign \in Signs :
          NewEmpty(dim, x, sign) /\ RecordFirst
    \/ \E v \in Val : AsMutSliceWrite(0, v) /\ RecordFirst
    \/ Drop /\ RecordFirst

SpecInit == Init /\ [][NextInit]_vars

\* Persisting and reloading records.
NextWire ==
    \/ \E emb \in Vecs(MaxDim), opt \in Vecs(MaxExtra), sign \in Signs :
          FromEmbAndOpt(emb, opt, sign) /\ UNCHANGED memo
    \/ \E inner \in Vecs(ArrayL), dim \in 0..ArrayL, sign \in Signs :
          FromDynamic(inner, dim, sign) /\ UNCHANGED memo
    \/ WriteTo /\ UNCHANGED memo
    \/ ReadFrom /\ UNCHANGED memo
    \/ Drop /\ UNCHANGED memo

SpecWire == Init /\ [][NextWire]_vars
\* ================================================================ claims
IsCopy == lastOp.op = "copy_from_other"
InRange(xs, lo, hi) == \A i \in 1..Len(xs) : lo <= xs[i] /\ xs[i] < hi

\* C1: dst.copy_from_other(src) returns false and leaves dst's buffer unchanged
\* when the embedding_dim differs, and returns true and makes dst's buffer
\* equal to src's buffer when the embedding_dim is the same.
C1_CopyExactOrUntouched ==
    IsCopy =>
        IF EmbeddingDim(lastOp.before) # EmbeddingDim(lastOp.other)
        THEN lastOp.ret = "false" /\ entry.inner = lastOp.before.inner
        ELSE lastOp.ret = "true" /\ entry.inner = lastOp.other.inner

\* C2: an entry's buffer has the length embedding_dim + extra_dim its
\* constructor was given, at creation and after every write through a slice
\* and every copy_from_other, successful or failed.
C2_BufferLengthConstant ==
    IsHashMap(entry) => InnerSize(entry) = born.dim + born.extra

C2_Witness ==
    /\ IsCopy /\ lastOp.ret = "true"
    /\ InnerSize(lastOp.other) > InnerSize(entry)

\* C3: no operation on an existing entry changes its sign or embedding_dim:
\* hashmap_key() is always the sign given at construction.
C3_SignAndDimFixed ==
    IsHashMap(entry) =>
        /\ Sign(entry) = born.sign
        /\ HashmapKey(entry) = born.sign
        /\ EmbeddingDim(entry) = born.dim

C3_Witness ==
    /\ IsCopy /\ lastOp.ret = "true"
    /\ Sign(lastOp.other) # Sign(entry)
    /\ entry.inner # lastOp.before.inner

\* C4: new() returns dim weights, each in [lower, upper) under
\* BoundedUniform(lower, upper), followed by extra zeros; new_empty() returns
\* dim + extra zeros.
C4_InitialContents ==
    /\ (lastOp.op = "new" /\ lastOp.ret = "ok") =>
          /\ Len(Emb(entry)) = lastOp.dim
          /\ lastOp.method.kind = "BoundedUniform" =>
                InRange(Emb(entry), lastOp.method.p1, lastOp.method.p2)
          /\ Opt(entry) = Filled(lastOp.extra, 0)
    /\ lastOp.op = "new_empty" =>
          /\ EmbeddingDim(entry) = lastOp.dim
          /\ AsEmbEntrySlice(entry) = Filled(lastOp.dim + lastOp.extra, 0)

C4_Witness ==
    /\ lastOp.op = "new" /\ lastOp.ret = "ok"
    /\ lastOp.method.kind = "BoundedUniform"
    /\ lastOp.dim = MaxDim /\ lastOp.extra >= 1
    /\ \E i \in 1..Len(Emb(entry)) : Emb(entry)[i] # 0

\* C5: a new() call with the arguments of the first new() call builds the
\* buffer the first call built, whatever was created and dropped in between.
C5_Deterministic ==
    (lastOp.op = "new" /\ lastOp.ret = "ok" /\ memo.set /\ SameArgs(memo, lastOp))
        => entry.inner = memo.inner

C5_Witness ==
    /\ lastOp.op = "new" /\ lastOp.ret = "ok"
    /\ memo.again /\ SameArgs(memo, lastOp)
    /\ lastOp.dim = MaxDim

\* C6: the value new() seeds its sampler with depends on the sign: two calls
\* with the same seed and different signs seed the sampler differently.
C6_SignTakesPartInSeed ==
    (lastOp.op = "new" /\ lastOp.ret = "ok" /\ memo.set
        /\ memo.seed = lastOp.seed /\ memo.sign # lastOp.sign)
        => memo.rngSeed # lastOp.rngSeed

\* C7: read_from of the bytes write_to wrote gives an entry with the sign,
\* embedding_dim and payload of the entry written.
C7_RoundTrip ==
    lastOp.op = "read_from" =>
        /\ Sign(entry) = Sign(sent)
        /\ EmbeddingDim(entry) = EmbeddingDim(sent)
        /\ entry.inner = sent.inner
        /\ entry = sent

C7_Witness ==
    /\ lastOp.op = "read_from"
    /\ InnerSize(entry) > EmbeddingDim(entry)
    /\ EmbeddingDim(entry) >= 1
    /\ \E i \in 1..InnerSize(entry) : entry.inner[i] # 0

\* C8: new() with any other initialization method panics and returns no entry.
C8_UnsupportedIsFatal ==
    (lastOp.op = "new" /\ lastOp.method.kind \notin SupportedKinds) =>
        /\ lastOp.ret = "panic"
        /\ aborted
        /\ entry = NoEntry

C8_Witness ==
    /\ lastOp.op = "new" /\ lastOp.method.kind = "Default"
    /\ aborted

\* C9: emb() is the first embedding_dim elements and opt() the rest;
\* emb_and_opt_mut() returns those two regions, and a write through one of
\* them leaves the other as it was.
C9_RegionsPartitionBuffer ==
    /\ IsHashMap(entry) =>
          /\ Len(Emb(entry)) = EmbeddingDim(entry)
          /\ Emb(entry) \o Opt(entry) = entry.inner
          /\ SliceRead(entry, EmbAndOptMut(entry)[1]) = Emb(entry)
          /\ SliceRead(entry, EmbAndOptMut(entry)[2]) = Opt(entry)
    /\ lastOp.op = "emb_and_opt_mut.emb" => Opt(entry) = Opt(lastOp.before)
    /\ lastOp.op = "emb_and_opt_mut.opt" => Emb(entry) = Emb(lastOp.before)

C9_Witness ==
    /\ lastOp.op = "emb_and_opt_mut.opt"
    /\ entry # lastOp.before
    /\ EmbeddingDim(entry) >= 1
    /\ \E i \in 1..Len(Emb(entry)) : Emb(entry)[i] # Opt(entry)[1]

\* C10: with equal embedding_dim and buffers of different length,
\* copy_from_other returns true, overwrites the first min(len(dst), len(src))
\* elements of dst and leaves the rest of dst and its length unchanged.
C10_CopyPrefixOnly ==
    (IsCopy /\ EmbeddingDim(lastOp.before) = EmbeddingDim(lastOp.other)
        /\ InnerSize(lastOp.before) # InnerSize(lastOp.other)) =>
        /\ lastOp.ret = "true"
        /\ InnerSize(entry) = InnerSize(lastOp.before)
        /\ \A i \in 1..InnerSize(entry) :
              entry.inner[i] =
                 IF i <= Min(InnerSize(lastOp.before), InnerSize(lastOp.other))
                 THEN lastOp.other.inner[i]
                 ELSE lastOp.before.inner[i]

C10_Witness ==
    /\ IsCopy /\ lastOp.ret = "true"
    /\ InnerSize(lastOp.other) < InnerSize(entry)
    /\ entry.inner # lastOp.before.inner
    /\ entry.inner[InnerSize(entry)] # 0
====
